---------------------------- MODULE Spec2Model ----------------------------
(***************************************************************************)
(* Quiz / comment backend (src/main.py, src/database.py).                   *)
(*                                                                         *)
(* State: the three SQLite tables written by submit_answer, the in-memory  *)
(* quiz_stats dictionary read by get_quiz_stats, the in-memory comment     *)
(* list, and, for the interleaved specification, each request's position   *)
(* and its SQLAlchemy session.                                             *)
(*                                                                         *)
(* Left out of the rows: autoincrement ids (a table is a sequence in       *)
(* insertion order, the position is the id), timestamps, comment text.     *)
(***************************************************************************)
EXTENDS Integers, Sequences, FiniteSets, TLC

VARIABLES
    tbl_quiz_records,   \* table quiz_records, in insertion order
    tbl_user_scores,    \* table user_scores, in insertion order
    tbl_quiz_stats,     \* table quiz_stats, in insertion order
    quiz_stats,         \* the in-memory dict quiz_stats of main.py
    submitted,          \* history: accepted submit_answer calls (quizId, isCorrect)
    result,             \* the response of the last handler that ran
    comments_db,        \* the in-memory comment list, newest first
    next_comment,       \* number of comment ids generated so far
    like_hist,          \* history: per comment id, its last two toggles
    pc,                 \* interleaved requests: position of each request
    sess                \* interleaved requests: the request's session

store == <<tbl_quiz_records, tbl_user_scores, tbl_quiz_stats>>
answer_vars == <<tbl_quiz_records, tbl_user_scores, tbl_quiz_stats, quiz_stats,
                 submitted>>
comment_vars == <<comments_db, next_comment, like_hist>>
conc_vars == <<pc, sess>>
vars == <<tbl_quiz_records, tbl_user_scores, tbl_quiz_stats, quiz_stats,
          submitted, result, comments_db, next_comment, like_hist, pc, sess>>

-----------------------------------------------------------------------------
(* Bounds *)

MaxSubmissions == 3
MaxComments == 2
MaxLikes == 3
NumRequests == 2
MaxConcRecords == 3

(* Program constants *)

ScoreIncrement == 8

-----------------------------------------------------------------------------
(* Inputs *)

None == "<None>"

UserNameInputs == {"alice", "bob", None}
UserIdInputs == {"u1", ""}
QuizIdInputs == {"quiz_1", "quiz_2"}
OptionInputs == {"A", "B", "E"}

QuizAnswer ==
    [quizId : QuizIdInputs, selectedOption : OptionInputs,
     userName : UserNameInputs, userId : UserIdInputs]

\* Python truthiness of an Optional[str]
Truthy(s) == s # None /\ s # ""

-----------------------------------------------------------------------------
(* quizzes_db *)

quizzes_db ==
    [q \in {"quiz_1"} |->
        [id |-> "quiz_1",
         options |-> << [label |-> "A", isCorrect |-> TRUE],
                        [label |-> "B", isCorrect |-> FALSE],
                        [label |-> "C", isCorrect |-> FALSE],
                        [label |-> "D", isCorrect |-> FALSE] >>]]

\* next((x for x in xs if <test>), None), given the sequence of the tests'
\* outcomes: the index of the first match, 0 for None
FirstIndex(matches) ==
    IF \E i \in 1..Len(matches) : matches[i]
    THEN CHOOSE i \in 1..Len(matches) :
            matches[i] /\ \A j \in 1..(i - 1) : ~matches[j]
    ELSE 0

\* index of the option flagged correct / of the selected option; 0 is None
CorrectOption(quiz) ==
    FirstIndex([i \in 1..Len(quiz.options) |-> quiz.options[i].isCorrect])

SelectedOption(quiz, answer) ==
    FirstIndex([i \in 1..Len(quiz.options) |->
                   quiz.options[i].label = answer.selectedOption])

\* Variant of ValidationStatus: the two status codes exchanged
MutValidationStatus(answer) ==
    IF answer.quizId \notin DOMAIN quizzes_db THEN 400
    ELSE LET quiz == quizzes_db[answer.quizId]
         IN  IF CorrectOption(quiz) = 0 \/ SelectedOption(quiz, answer) = 0
             THEN 404
             ELSE 0

\* 0 when the request passes validation, else the HTTP status raised
ValidationStatus(answer) ==
    IF answer.quizId \notin DOMAIN quizzes_db THEN 404
    ELSE LET quiz == quizzes_db[answer.quizId]
         IN  IF CorrectOption(quiz) = 0 \/ SelectedOption(quiz, answer) = 0
             THEN 400
             ELSE 0

\* Variant of IsCorrect: the flag is read from the correct option
MutIsCorrect(answer) ==
    LET quiz == quizzes_db[answer.quizId]
    IN  quiz.options[CorrectOption(quiz)].isCorrect

IsCorrect(answer) ==
    LET quiz == quizzes_db[answer.quizId]
    IN  quiz.options[SelectedOption(quiz, answer)].isCorrect

\* the two fixed messages, in English here
Message(is_correct) == IF is_correct THEN "correct" ELSE "wrong, try again"

QuizResult(answer) ==
    LET quiz == quizzes_db[answer.quizId]
    IN  [op |-> "submit_answer", request |-> answer, status |-> 200,
         isCorrect |-> IsCorrect(answer),
         correctAnswer |-> quiz.options[CorrectOption(quiz)].label,
         message |-> Message(IsCorrect(answer))]

ErrorResult(answer, code) ==
    [op |-> "submit_answer", request |-> answer, status |-> code]

\* Variant of Identified: one identity field is enough
MutIdentified(answer) == Truthy(answer.userName) \/ Truthy(answer.userId)

Identified(answer) == Truthy(answer.userName) /\ Truthy(answer.userId)

-----------------------------------------------------------------------------
(* The session of one submit_answer call: objects added or modified, written *)
(* to the tables only by commit (autocommit=False, autoflush=False).         *)

NoOp == [kind |-> "none"]

NewQuizRecord(answer, is_correct) ==
    [quiz_id |-> answer.quizId, user_id |-> answer.userId,
     user_name |-> answer.userName,
     selected_option |-> answer.selectedOption, is_correct |-> is_correct]

\* Variant of UserScoreWrite: an existing row gets no score for a correct answer
MutUserScoreWrite(rows, answer, is_correct) ==
    LET i == FirstIndex([k \in 1..Len(rows) |-> rows[k].user_name = answer.userName])
    IN  IF i = 0
        THEN [kind |-> "insert",
              row |-> [user_name |-> answer.userName,
                       correct_count |-> IF is_correct THEN 1 ELSE 0,
                       wrong_count |-> IF is_correct THEN 0 ELSE 1,
                       total_score |-> IF is_correct THEN ScoreIncrement ELSE 0]]
        ELSE IF is_correct
             THEN [kind |-> "update", id |-> i,
                   row |-> [rows[i] EXCEPT !.correct_count = @ + 1],
                   dirty |-> {"correct_count"}]
             ELSE [kind |-> "update", id |-> i,
                   row |-> [rows[i] EXCEPT !.wrong_count = @ + 1],
                   dirty |-> {"wrong_count"}]

\* lines 211-228: query the row by user_name, then create it or modify it
UserScoreWrite(rows, answer, is_correct) ==
    LET i == FirstIndex([k \in 1..Len(rows) |-> rows[k].user_name = answer.userName])
    IN  IF i = 0
        THEN [kind |-> "insert",
              row |-> [user_name |-> answer.userName,
                       correct_count |-> IF is_correct THEN 1 ELSE 0,
                       wrong_count |-> IF is_correct THEN 0 ELSE 1,
                       total_score |-> IF is_correct THEN ScoreIncrement ELSE 0]]
        ELSE IF is_correct
             THEN [kind |-> "update", id |-> i,
                   row |-> [rows[i] EXCEPT
                               !.correct_count = @ + 1,
                               !.total_score = @ + ScoreIncrement],
                   dirty |-> {"correct_count", "total_score"}]
             ELSE [kind |-> "update", id |-> i,
                   row |-> [rows[i] EXCEPT !.wrong_count = @ + 1],
                   dirty |-> {"wrong_count"}]

\* Variant of QuizStatWrite: a wrong answer does not raise total_count
MutQuizStatWrite(rows, answer, is_correct) ==
    LET i == FirstIndex([k \in 1..Len(rows) |-> rows[k].quiz_id = answer.quizId])
    IN  IF i = 0
        THEN [kind |-> "insert",
              row |-> [quiz_id |-> answer.quizId,
                       correct_count |-> IF is_correct THEN 1 ELSE 0,
                       wrong_count |-> IF is_correct THEN 0 ELSE 1,
                       total_count |-> 1]]
        ELSE IF is_correct
             THEN [kind |-> "update", id |-> i,
                   row |-> [rows[i] EXCEPT
                               !.correct_count = @ + 1,
                               !.total_count = @ + 1],
                   dirty |-> {"correct_count", "total_count"}]
             ELSE [kind |-> "update", id |-> i,
                   row |-> [rows[i] EXCEPT !.wrong_count = @ + 1],
                   dirty |-> {"wrong_count"}]

\* lines 231-248: query the row by quiz_id, then create it or modify it
QuizStatWrite(rows, answer, is_correct) ==
    LET i == FirstIndex([k \in 1..Len(rows) |-> rows[k].quiz_id = answer.quizId])
    IN  IF i = 0
        THEN [kind |-> "insert",
              row |-> [quiz_id |-> answer.quizId,
                       correct_count |-> IF is_correct THEN 1 ELSE 0,
                       wrong_count |-> IF is_correct THEN 0 ELSE 1,
                       total_count |-> 1]]
        ELSE IF is_correct
             THEN [kind |-> "update", id |-> i,
                   row |-> [rows[i] EXCEPT
                               !.correct_count = @ + 1,
                               !.total_count = @ + 1],
                   dirty |-> {"correct_count", "total_count"}]
             ELSE [kind |-> "update", id |-> i,
                   row |-> [rows[i] EXCEPT
                               !.wrong_count = @ + 1,
                               !.total_count = @ + 1],
                   dirty |-> {"wrong_count", "total_count"}]

\* The unique column of a table row
KeyOf(row) ==
    IF "user_name" \in DOMAIN row THEN row.user_name ELSE row.quiz_id

\* INSERT violates the unique index when the key is already in the table
UniqueViolation(rows, op) ==
    op.kind = "insert" /\ \E i \in 1..Len(rows) : KeyOf(rows[i]) = KeyOf(op.row)

\* Flush of one pending object: INSERT the row, or UPDATE ... SET <modified
\* columns> WHERE id = <id>, the values being those computed in the session
ApplyWrite(rows, op) ==
    IF op.kind = "insert" THEN Append(rows, op.row)
    ELSE IF op.kind = "update"
    THEN [rows EXCEPT ![op.id] =
            [c \in DOMAIN @ |-> IF c \in op.dirty THEN op.row[c] ELSE @[c]]]
    ELSE rows

\* Variant of CommitSession: each flushed statement is committed on its own,
\* so the record stays when a later INSERT is refused
MutCommitSession(st, s) ==
    IF UniqueViolation(st[2], s.user_op)
    THEN [ok |-> FALSE, store |-> << Append(st[1], s.record), st[2], st[3] >>]
    ELSE IF UniqueViolation(st[3], s.stat_op)
    THEN [ok |-> FALSE,
          store |-> << Append(st[1], s.record),
                       ApplyWrite(st[2], s.user_op), st[3] >>]
    ELSE [ok |-> TRUE,
          store |-> << Append(st[1], s.record),
                       ApplyWrite(st[2], s.user_op),
                       ApplyWrite(st[3], s.stat_op) >>]

\* db.commit(): flush every pending object in one transaction and COMMIT; an
\* error while flushing rolls the transaction back.
\* st is <<quiz_records, user_scores, quiz_stats>>.
CommitSession(st, s) ==
    IF UniqueViolation(st[2], s.user_op) \/ UniqueViolation(st[3], s.stat_op)
    THEN [ok |-> FALSE, store |-> st]
    ELSE [ok |-> TRUE,
          store |-> << Append(st[1], s.record),
                       ApplyWrite(st[2], s.user_op),
                       ApplyWrite(st[3], s.stat_op) >>]

\* lines 199-248 against the tables as they stand
BuildSession(st, answer) ==
    [answer |-> answer,
     record |-> NewQuizRecord(answer, IsCorrect(answer)),
     user_op |-> UserScoreWrite(st[2], answer, IsCorrect(answer)),
     stat_op |-> QuizStatWrite(st[3], answer, IsCorrect(answer))]

-----------------------------------------------------------------------------
(* Handlers, one request at a time *)

NumSubmitted ==
    LET q == "quiz_1" IN submitted[q].correct + submitted[q].wrong

Accept(answer) ==
    [submitted EXCEPT ![answer.quizId] =
        IF IsCorrect(answer) THEN [@ EXCEPT !.correct = @ + 1]
        ELSE [@ EXCEPT !.wrong = @ + 1]]

\* POST /api/quizzes/answer
SubmitAnswer(answer, commit_ok) ==
    /\ NumSubmitted < MaxSubmissions
    /\ LET status == ValidationStatus(answer)
       IN  IF status # 0
           THEN /\ result' = ErrorResult(answer, status)
                /\ UNCHANGED answer_vars
           ELSE IF ~Identified(answer)
           THEN /\ result' = QuizResult(answer)
                /\ submitted' = Accept(answer)
                /\ UNCHANGED <<store, quiz_stats>>
           ELSE LET out == CommitSession(store, BuildSession(store, answer))
                IN  IF commit_ok /\ out.ok
                    THEN /\ tbl_quiz_records' = out.store[1]
                         /\ tbl_user_scores' = out.store[2]
                         /\ tbl_quiz_stats' = out.store[3]
                         /\ result' = QuizResult(answer)
                         /\ submitted' = Accept(answer)
                         /\ UNCHANGED quiz_stats
                    ELSE /\ result' = ErrorResult(answer, 500)
                         /\ UNCHANGED answer_vars
    /\ UNCHANGED <<comment_vars, conc_vars>>

\* round(correct / total * 100, 2) in hundredths of a percent, ties to even
Accuracy(correct, total) ==
    IF total > 0
    THEN LET x == correct * 10000
             q == x \div total
             r == x % total
         IN  IF 2 * r < total THEN q
             ELSE IF 2 * r > total THEN q + 1
             ELSE IF q % 2 = 0 THEN q ELSE q + 1
    ELSE 0

\* GET /api/quizzes/{quiz_id}/stats: reads the in-memory dict quiz_stats
GetQuizStats(quiz_id) ==
    /\ LET stats == IF quiz_id \in DOMAIN quiz_stats THEN quiz_stats[quiz_id]
                    ELSE [correct |-> 0, wrong |-> 0]
           total == stats.correct + stats.wrong
       IN  result' = [op |-> "get_quiz_stats", quiz_id |-> quiz_id,
                      correct |-> stats.correct, wrong |-> stats.wrong,
                      total |-> total,
                      accuracy |-> Accuracy(stats.correct, total)]
    /\ UNCHANGED <<answer_vars, comment_vars, conc_vars>>

\* Variant of OrderByTotalScoreDesc: no ORDER BY, the rows in insertion order
MutOrderByTotalScoreDesc(rows) == { [i \in 1..Len(rows) |-> i] }

\* ORDER BY total_score DESC: the orders the database may return; rows of equal
\* total_score come in an order SQL leaves open
OrderByTotalScoreDesc(rows) ==
    { ord \in [1..Len(rows) -> 1..Len(rows)] :
        /\ \A i, j \in 1..Len(rows) : i # j => ord[i] # ord[j]
        /\ \A i \in 1..(Len(rows) - 1) :
              rows[ord[i]].total_score >= rows[ord[i + 1]].total_score }

UserStatsRow(rank, user) ==
    LET total == user.correct_count + user.wrong_count
    IN  [rank |-> rank, userName |-> user.user_name,
         score |-> user.total_score, correct |-> user.correct_count,
         wrong |-> user.wrong_count, total |-> total,
         accuracy |-> Accuracy(user.correct_count, total)]

\* GET /api/stats/users
GetUserStats ==
    /\ \E ord \in OrderByTotalScoreDesc(tbl_user_scores) :
          result' = [op |-> "get_user_stats",
                     rows |-> [i \in 1..Len(tbl_user_scores) |->
                                  UserStatsRow(i, tbl_user_scores[ord[i]])]]
    /\ UNCHANGED <<answer_vars, comment_vars, conc_vars>>

-----------------------------------------------------------------------------
(* Comments: the in-memory list comments_db *)

CommentIds == 1..MaxComments

\* next((c for c in comments_db if c.id == commentId), None): its index, 0 for None
FindComment(commentId) ==
    FirstIndex([i \in 1..Len(comments_db) |-> comments_db[i].id = commentId])

Max(a, b) == IF a >= b THEN a ELSE b

\* Variant of Toggled: the unlike clears the flag and keeps the count
MutToggled(comment, liked) ==
    IF liked
    THEN [comment EXCEPT !.likes = @ + 1, !.liked = TRUE]
    ELSE [comment EXCEPT !.likes = Max(0, @), !.liked = FALSE]

\* lines 149-154: the comment after the toggle
Toggled(comment, liked) ==
    IF liked
    THEN [comment EXCEPT !.likes = @ + 1, !.liked = TRUE]
    ELSE [comment EXCEPT !.likes = Max(0, @ - 1), !.liked = FALSE]

\* the last two toggles of a comment, as a history
Remember(h, entry) ==
    IF Len(h) < 2 THEN Append(h, entry) ELSE <<h[2], entry>>

\* POST /api/comments: a fresh id, likes 0, inserted at the head
CreateComment ==
    /\ next_comment < MaxComments
    /\ next_comment' = next_comment + 1
    /\ LET comment == [id |-> next_comment + 1, likes |-> 0, liked |-> FALSE]
       IN  /\ comments_db' = <<comment>> \o comments_db
           /\ result' = [op |-> "create_comment", status |-> 200,
                         comment |-> comment]
    /\ UNCHANGED <<like_hist, answer_vars, conc_vars>>

\* POST /api/comments/like
ToggleLike(commentId, liked) ==
    /\ LET i == FindComment(commentId)
       IN  IF i = 0
           THEN /\ result' = [op |-> "toggle_like", commentId |-> commentId,
                              liked |-> liked, status |-> 404]
                /\ UNCHANGED <<comments_db, like_hist>>
           ELSE LET after == Toggled(comments_db[i], liked)
                IN  /\ after.likes <= MaxLikes
                    /\ comments_db' = [comments_db EXCEPT ![i] = after]
                    /\ like_hist' = [like_hist EXCEPT ![commentId] =
                          Remember(@, [liked |-> liked,
                                       before |-> comments_db[i].likes,
                                       after |-> after.likes])]
                    /\ result' = [op |-> "toggle_like", commentId |-> commentId,
                                  liked |-> liked, status |-> 200,
                                  success |-> TRUE, likes |-> after.likes]
    /\ UNCHANGED <<next_comment, answer_vars, conc_vars>>

\* DELETE /api/comments/{comment_id}: succeeds whether or not the id exists
DeleteComment(comment_id) ==
    /\ comments_db' = SelectSeq(comments_db, LAMBDA c : c.id # comment_id)
    /\ result' = [op |-> "delete_comment", comment_id |-> comment_id,
                  status |-> 200, success |-> TRUE]
    /\ UNCHANGED <<next_comment, like_hist, answer_vars, conc_vars>>

-----------------------------------------------------------------------------
(* submit_answer, step by step, for requests served at the same time by     *)
(* several workers on the one database file.  A session reads the tables    *)
(* as committed (autoflush=False: nothing is written before commit) and     *)
(* SQLite serialises the commits.                                           *)

Requests == 1..NumRequests

ConcAnswers ==
    { a \in QuizAnswer :
        /\ a.selectedOption # "E"
        /\ Identified(a)
        /\ a.quizId = "quiz_1" \/ (a.userName = "alice" /\ a.selectedOption = "A") }

InFlight == { p \in Requests : pc[p] # "idle" }

\* lines 183-208: validate, score, db.add(quiz_record)
Begin(p, answer) ==
    /\ pc[p] = "idle"
    /\ Len(tbl_quiz_records) + Cardinality(InFlight) < MaxConcRecords
    /\ LET status == ValidationStatus(answer)
       IN  IF status # 0
           THEN /\ result' = ErrorResult(answer, status)
                /\ UNCHANGED <<pc, sess, submitted>>
           ELSE IF ~Identified(answer)
           THEN /\ result' = QuizResult(answer)
                /\ submitted' = Accept(answer)
                /\ UNCHANGED <<pc, sess>>
           ELSE /\ sess' = [sess EXCEPT ![p] =
                               [answer |-> answer,
                                record |-> NewQuizRecord(answer, IsCorrect(answer)),
                                user_op |-> NoOp, stat_op |-> NoOp]]
                /\ pc' = [pc EXCEPT ![p] = "query_user"]
                /\ UNCHANGED <<result, submitted>>
    /\ UNCHANGED <<store, quiz_stats, comment_vars>>

\* lines 211-228
QueryUserScore(p) ==
    /\ pc[p] = "query_user"
    /\ sess' = [sess EXCEPT ![p].user_op =
                   UserScoreWrite(tbl_user_scores, sess[p].answer,
                                  sess[p].record.is_correct)]
    /\ pc' = [pc EXCEPT ![p] = "query_stat"]
    /\ UNCHANGED <<answer_vars, result, comment_vars>>

\* lines 231-248
QueryQuizStat(p) ==
    /\ pc[p] = "query_stat"
    /\ sess' = [sess EXCEPT ![p].stat_op =
                   QuizStatWrite(tbl_quiz_stats, sess[p].answer,
                                 sess[p].record.is_correct)]
    /\ pc' = [pc EXCEPT ![p] = "commit"]
    /\ UNCHANGED <<answer_vars, result, comment_vars>>

\* line 251, then the response; a failed commit leaves through get_db's
\* finally (db.close())
Commit(p) ==
    /\ pc[p] = "commit"
    /\ LET out == CommitSession(store, sess[p])
       IN  /\ tbl_quiz_records' = out.store[1]
           /\ tbl_user_scores' = out.store[2]
           /\ tbl_quiz_stats' = out.store[3]
           /\ IF out.ok
              THEN /\ result' = QuizResult(sess[p].answer)
                   /\ submitted' = Accept(sess[p].answer)
              ELSE /\ result' = ErrorResult(sess[p].answer, 500)
                   /\ UNCHANGED submitted
    /\ pc' = [pc EXCEPT ![p] = "idle"]
    /\ sess' = [sess EXCEPT ![p] = NoOp]
    /\ UNCHANGED <<quiz_stats, comment_vars>>

\* an exception at any point after db.add (database locked, I/O error): the
\* session is closed with nothing committed
Fail(p) ==
    /\ pc[p] # "idle"
    /\ result' = ErrorResult(sess[p].answer, 500)
    /\ pc' = [pc EXCEPT ![p] = "idle"]
    /\ sess' = [sess EXCEPT ![p] = NoOp]
    /\ UNCHANGED <<answer_vars, comment_vars>>

-----------------------------------------------------------------------------
Init ==
    /\ tbl_quiz_records = <<>>
    /\ tbl_user_scores = <<>>
    /\ tbl_quiz_stats = <<>>
    /\ quiz_stats = <<>>
    /\ submitted = [q \in DOMAIN quizzes_db |-> [correct |-> 0, wrong |-> 0]]
    /\ result = [op |-> "none"]
    /\ comments_db = <<>>
    /\ next_comment = 0
    /\ like_hist = [c \in CommentIds |-> <<>>]
    /\ pc = [p \in Requests |-> "idle"]
    /\ sess = [p \in Requests |-> NoOp]

Next ==
    \/ \E answer \in QuizAnswer, commit_ok \in BOOLEAN :
          SubmitAnswer(answer, commit_ok)
    \/ \E quiz_id \in QuizIdInputs : GetQuizStats(quiz_id)
    \/ GetUserStats

Spec == Init /\ [][Next]_vars

NextComments ==
    \/ CreateComment
    \/ \E commentId \in CommentIds, liked \in BOOLEAN :
          ToggleLike(commentId, liked)
    \/ \E comment_id \in CommentIds : DeleteComment(comment_id)

SpecComments == Init /\ [][NextComments]_vars

NextConc ==
    \/ \E p \in Requests, answer \in ConcAnswers : Begin(p, answer)
    \/ \E p \in Requests : QueryUserScore(p)
    \/ \E p \in Requests : QueryQuizStat(p)
    \/ \E p \in Requests : Commit(p)
    \/ \E p \in Requests : Fail(p)

SpecConc == Init /\ [][NextConc]_vars

-----------------------------------------------------------------------------
(* Properties *)

\* the number of quiz_records of a user name / of a quiz id with a given flag
UserRecords(name, flag) ==
    Cardinality({ i \in 1..Len(tbl_quiz_records) :
        /\ tbl_quiz_records[i].user_name = name
        /\ tbl_quiz_records[i].is_correct = flag })

QuizRecords(q, flag) ==
    Cardinality({ i \in 1..Len(tbl_quiz_records) :
        /\ tbl_quiz_records[i].quiz_id = q
        /\ tbl_quiz_records[i].is_correct = flag })

UserNames ==
    UserNameInputs \cup { tbl_quiz_records[i].user_name :
                            i \in 1..Len(tbl_quiz_records) }

QuizIds ==
    QuizIdInputs \cup { tbl_quiz_records[i].quiz_id :
                          i \in 1..Len(tbl_quiz_records) }

\* the user_scores rows of one name agree with the quiz_records of that name
UserAgrees(name) ==
    LET rows == { i \in 1..Len(tbl_user_scores) :
                    tbl_user_scores[i].user_name = name }
        nc == UserRecords(name, TRUE)
        nw == UserRecords(name, FALSE)
    IN  IF rows = {} THEN nc + nw = 0
        ELSE /\ Cardinality(rows) = 1
             /\ \A i \in rows :
                   /\ tbl_user_scores[i].correct_count = nc
                   /\ tbl_user_scores[i].wrong_count = nw
                   /\ tbl_user_scores[i].total_score = 8 * nc

\* the quiz_stats rows of one quiz agree with the quiz_records of that quiz
QuizAgrees(q) ==
    LET rows == { i \in 1..Len(tbl_quiz_stats) : tbl_quiz_stats[i].quiz_id = q }
        nc == QuizRecords(q, TRUE)
        nw == QuizRecords(q, FALSE)
    IN  IF rows = {} THEN nc + nw = 0
        ELSE /\ Cardinality(rows) = 1
             /\ \A i \in rows :
                   /\ tbl_quiz_stats[i].correct_count = nc
                   /\ tbl_quiz_stats[i].wrong_count = nw
                   /\ tbl_quiz_stats[i].total_count = nc + nw

\* C1: after any sequence of submit_answer calls, every user name's UserScore
\* row counts exactly that name's correct and wrong AnswerRecords, its
\* total_score is 8 times its correct_count, and a name without a row has no
\* records.
C1_UserScoreAgreesWithLog == \A name \in UserNames : UserAgrees(name)

\* one user with correct and wrong answers, and a second user
C1_Witness ==
    /\ Len(tbl_user_scores) = 2
    /\ \E i \in 1..2 :
          /\ tbl_user_scores[i].correct_count >= 1
          /\ tbl_user_scores[i].wrong_count >= 1

\* C2: after any sequence of submit_answer calls, identified and anonymous,
\* every quiz id's QuizStat row counts exactly that quiz's AnswerRecords:
\* total, correct and wrong, with total = correct + wrong.
C2_QuizStatAgreesWithLog == \A q \in QuizIds : QuizAgrees(q)

\* correct and wrong identified answers and an anonymous one in between
C2_Witness ==
    /\ Len(tbl_quiz_stats) = 1
    /\ tbl_quiz_stats[1].correct_count >= 1
    /\ tbl_quiz_stats[1].wrong_count >= 1
    /\ NumSubmitted > tbl_quiz_stats[1].total_count

\* C3: get_quiz_stats of a quiz returns the numbers of correct and of wrong
\* accepted submissions to that quiz, and their sum as total.  The accepted
\* submissions are read either way: every scored call, or the persisted ones.
C3_QuizStatsReportSubmissions ==
    (result.op = "get_quiz_stats" /\ result.quiz_id \in DOMAIN submitted) =>
        LET q == result.quiz_id
        IN  /\ \/ /\ result.correct = submitted[q].correct
                  /\ result.wrong = submitted[q].wrong
               \/ /\ result.correct = QuizRecords(q, TRUE)
                  /\ result.wrong = QuizRecords(q, FALSE)
            /\ result.total = result.correct + result.wrong

\* the pending write op of a session is in the table after the step: the
\* inserted row is the table's new last row, or the updated row holds the
\* session's value in every modified column
Written(before, after, op) ==
    \/ /\ op.kind = "insert"
       /\ Len(after) = Len(before) + 1
       /\ after[Len(after)] = op.row
    \/ /\ op.kind = "update"
       /\ Len(after) = Len(before)
       /\ \A c \in op.dirty : after[op.id][c] = op.row[c]

\* the step is the successful commit of request p: its record, its UserScore
\* write and its QuizStat write are all in the tables, and the response is
\* the scored result
CommitsAllThree(p) ==
    /\ pc[p] = "commit" /\ pc'[p] = "idle"
    /\ result' = QuizResult(sess[p].answer)
    /\ tbl_quiz_records' = Append(tbl_quiz_records, sess[p].record)
    /\ Written(tbl_user_scores, tbl_user_scores', sess[p].user_op)
    /\ Written(tbl_quiz_stats, tbl_quiz_stats', sess[p].stat_op)

\* the step ends request p in failure
EndsInFailure(p) ==
    /\ pc[p] # "idle" /\ pc'[p] = "idle"
    /\ result' = ErrorResult(sess[p].answer, 500)

\* C4: the three writes of an identified submit_answer are atomic: a step
\* that changes any table is the commit of one request and writes its record,
\* its UserScore and its QuizStat together, and a request that ends in
\* failure, at whatever point, leaves the three tables as they were.
C4_WritesAreAtomic ==
    [][ /\ store' # store => \E p \in Requests : CommitsAllThree(p)
        /\ (\E p \in Requests : EndsInFailure(p)) => store' = store ]_vars

\* a commit was refused (the row another request inserted first) or a request
\* failed, while the tables hold committed rows
C4_Witness ==
    /\ result.op = "submit_answer" /\ result.status = 500
    /\ Len(tbl_quiz_records) >= 1
    /\ InFlight # {}

\* C5: submit_answer with an unknown quizId fails with 404, with a known
\* quizId and a selectedOption that is no label of the quiz with 400, with
\* or without identity; neither writes a record nor changes an aggregate.
C5_InvalidRequestsRejected ==
    [][ result'.op = "submit_answer" =>
          LET a == result'.request
          IN  /\ a.quizId \notin {"quiz_1"} =>
                    result'.status = 404 /\ store' = store
              /\ (a.quizId = "quiz_1" /\ a.selectedOption \notin {"A", "B", "C", "D"})
                    => result'.status = 400 /\ store' = store ]_vars

\* an identified request with an invalid option is refused while rows exist
C5_Witness ==
    /\ result.op = "submit_answer" /\ result.status = 400
    /\ Identified(result.request)
    /\ Len(tbl_quiz_records) >= 1

\* C6: for a known quiz and a selectedOption that is one of its labels,
\* submit_answer returns isCorrect equal to that option's flag and
\* correctAnswer equal to the label of the option flagged correct.
C6_ScoredAgainstQuiz ==
    (result.op = "submit_answer" /\ result.status = 200) =>
        LET opts == quizzes_db[result.request.quizId].options
        IN  /\ \E i \in 1..Len(opts) :
                  /\ opts[i].label = result.request.selectedOption
                  /\ opts[i].isCorrect = result.isCorrect
            /\ \E i \in 1..Len(opts) :
                  /\ opts[i].isCorrect
                  /\ opts[i].label = result.correctAnswer

\* a wrong anonymous answer scored while the tables hold rows
C6_Witness ==
    /\ result.op = "submit_answer" /\ result.status = 200
    /\ ~result.isCorrect
    /\ ~Identified(result.request)
    /\ Len(tbl_quiz_records) >= 1

\* C7: get_user_stats returns one row per UserScore, score non-increasing
\* from first to last, and the row at position i has rank i.
C7_LeaderboardRanked ==
    result.op = "get_user_stats" =>
        LET rows == result.rows
        IN  /\ Len(rows) = Len(tbl_user_scores)
            /\ \A u \in 1..Len(tbl_user_scores) :
                  Cardinality({ i \in 1..Len(rows) :
                      /\ rows[i].userName = tbl_user_scores[u].user_name
                      /\ rows[i].score = tbl_user_scores[u].total_score }) = 1
            /\ \A i \in 1..Len(rows) : rows[i].rank = i
            /\ \A i \in 1..(Len(rows) - 1) : rows[i].score >= rows[i + 1].score

\* the user inserted second has the higher score and is ranked first
C7_Witness ==
    /\ result.op = "get_user_stats"
    /\ Len(result.rows) = 2
    /\ result.rows[1].score > result.rows[2].score
    /\ result.rows[1].userName = tbl_user_scores[2].user_name

\* C8: a like followed directly by an unlike of the same comment leaves its
\* likes where they were before the like, and likes are never negative.
C8_LikeThenUnlikeRoundTrips ==
    /\ \A i \in 1..Len(comments_db) : comments_db[i].likes >= 0
    /\ \A c \in CommentIds :
          LET h == like_hist[c]
          IN  (Len(h) = 2 /\ h[1].liked /\ ~h[2].liked) =>
                 /\ h[2].after = h[1].before
                 /\ \A i \in 1..Len(comments_db) :
                       comments_db[i].id = c => comments_db[i].likes = h[1].before

\* a comment with two likes was liked and then unliked
C8_Witness ==
    \E i \in 1..Len(comments_db) :
        LET h == like_hist[comments_db[i].id]
        IN  /\ Len(h) = 2 /\ h[1].liked /\ ~h[2].liked
            /\ h[1].before = 2

\* C9: a valid submit_answer call without userName or without userId returns
\* the scored result and leaves the three tables as they were.
C9_AnonymousNotPersisted ==
    [][ (/\ result'.op = "submit_answer"
         /\ result'.request.quizId = "quiz_1"
         /\ result'.request.selectedOption \in {"A", "B", "C", "D"}
         /\ (result'.request.userName \in {"", None}
               \/ result'.request.userId \in {"", None}))
        => /\ result'.status = 200
           /\ result'.isCorrect = (result'.request.selectedOption = "A")
           /\ result'.correctAnswer = "A"
           /\ result'.message = Message(result'.isCorrect)
           /\ store' = store ]_vars

\* a request with a user name and an empty user id, scored, with rows present
C9_Witness ==
    /\ result.op = "submit_answer" /\ result.status = 200
    /\ result.request.userName = "alice" /\ result.request.userId = ""
    /\ Len(tbl_quiz_records) >= 1

\* C10: once every interleaved submit_answer request has finished, every
\* committed AnswerRecord is counted exactly once in its UserScore and in its
\* QuizStat.
C10_NoLostUpdate ==
    InFlight = {} =>
        /\ \A name \in UserNames : UserAgrees(name)
        /\ \A q \in QuizIds : QuizAgrees(q)

=============================================================================
